---- MODULE Spec2Model ----
(***************************************************************************)
(* Model of the shared usage fetcher (claude-usage@local/usage_fetcher.py). *)
(*                                                                         *)
(* Each fetch_async call starts one worker thread running _do_fetch.  The  *)
(* fetcher takes no lock, so a worker's step is one access to a field of   *)
(* the shared UsageFetcher object; the statements between two accesses     *)
(* touch only the worker's locals and are folded into the step before.     *)
(*                                                                         *)
(* Text is a sequence of characters.  A character is a one-element string; *)
(* a name such as "SESSION_REMAINING" stands for that run of letters, which *)
(* holds no '=', '#', blank or newline and is never cut by the parser.     *)
(* Times of day are left out of the status labels; last_successful_fetch   *)
(* holds the number of the attempt that stored it.                         *)
(***************************************************************************)
EXTENDS Integers, Sequences, FiniteSets, TLC

\* ------------------------------------------------------------------ bounds
MaxCalls == 2
MaxKeyLen == 1
MaxValueLen == 3
MaxTextLen == 6

Threads == 1..MaxCalls

\* ------------------------------------------------------------ text helpers
White == {" ", "\n"}

RECURSIVE LStrip(_)
LStrip(s) == IF s = <<>> THEN s
             ELSE IF Head(s) \in White THEN LStrip(Tail(s)) ELSE s

RECURSIVE RStrip(_)
RStrip(s) == IF s = <<>> THEN s
             ELSE IF s[Len(s)] \in White THEN RStrip(SubSeq(s, 1, Len(s) - 1)) ELSE s

\* str.strip()
Strip(s) == RStrip(LStrip(s))

\* c in s
Contains(s, c) == \E i \in 1..Len(s) : s[i] = c

\* s.find(c) + 1: the position of the first c in s, 0 when there is none
Find(s, c) == IF Contains(s, c)
              THEN CHOOSE i \in 1..Len(s) : s[i] = c /\ \A j \in 1..(i - 1) : s[j] # c
              ELSE 0

\* s.split('\n'): the empty text splits into one empty line
RECURSIVE SplitLines(_)
SplitLines(s) == IF ~Contains(s, "\n") THEN <<s>>
                 ELSE <<SubSeq(s, 1, Find(s, "\n") - 1)>>
                      \o SplitLines(SubSeq(s, Find(s, "\n") + 1, Len(s)))

\* line.startswith('#')
StartsWithHash(line) == Len(line) > 0 /\ line[1] = "#"

\* ------------------------------------------------------------ dictionaries
\* A dict is a set of <<key, value>> pairs with pairwise different keys.
Keys(d) == {p[1] : p \in d}

\* d[k] = v that keeps an entry the key has already
PutBeside(d, k, v) == d \cup {<<k, v>>}

\* d[k] = v
Put(d, k, v) == {p \in d : p[1] # k} \cup {<<k, v>>}

\* d.get(k, default)
Get(d, k, default) == IF k \in Keys(d) THEN (CHOOSE p \in d : p[1] = k)[2] ELSE default

\* ------------------------------------------------------------------ parser
SESSION_REMAINING == <<"SESSION_REMAINING">>
WEEKLY_REMAINING == <<"WEEKLY_REMAINING">>
Unknown == <<"?", "?">>

\* the value of line.split('='), which cuts at every '='
LineValueCut(line) ==
    Strip(SubSeq(line, Find(line, "=") + 1,
                 IF Contains(SubSeq(line, Find(line, "=") + 1, Len(line)), "=")
                 THEN Find(line, "=")
                      + Find(SubSeq(line, Find(line, "=") + 1, Len(line)), "=") - 1
                 ELSE Len(line)))

\* line.split('=', 1), key.strip(), value.strip()
LineKey(line) == Strip(SubSeq(line, 1, Find(line, "=") - 1))
LineValue(line) == Strip(SubSeq(line, Find(line, "=") + 1, Len(line)))

\* the condition of the parser's loop body
IsEntryLine(line) == Contains(line, "=") /\ ~StartsWithHash(line)

\* the loop over the lines, from line i on, with the dict built so far
RECURSIVE ParseLines(_, _, _)
ParseLines(lines, i, data) ==
    IF i > Len(lines) THEN data
    ELSE ParseLines(lines, i + 1,
                    IF IsEntryLine(lines[i])
                    THEN Put(data, LineKey(lines[i]), LineValue(lines[i]))
                    ELSE data)

\* the loop over the lines of the output as it is, without output.strip()
ParseUnstripped(output) == ParseLines(SplitLines(output), 1, {})

\* the dict _parse_output builds from the script's standard output
Parse(output) == ParseLines(SplitLines(Strip(output)), 1, {})

\* has_valid_data with `or` in the place of `and`
HasValidDataEither(data) ==
    \/ Get(data, SESSION_REMAINING, Unknown) # Unknown
    \/ Get(data, WEEKLY_REMAINING, Unknown) # Unknown

\* has_valid_data
HasValidData(data) ==
    /\ Get(data, SESSION_REMAINING, Unknown) # Unknown
    /\ Get(data, WEEKLY_REMAINING, Unknown) # Unknown

\* ------------------------------------------------------------ the fetcher
\* Optional[Dict[str, str]]
None == [some |-> FALSE, val |-> {}]
Some(d) == [some |-> TRUE, val |-> d]

\* Optional[str] for last_error: the messages the fetcher builds
NoError == [kind |-> "None", code |-> 0, text |-> <<>>]
Never == 0

PreviewLen == 100

\* result.stderr[:100], with the newlines kept and nothing said of an empty text
StderrHead(stderr) ==
    SubSeq(stderr, 1, IF Len(stderr) < PreviewLen THEN Len(stderr) ELSE PreviewLen)

\* result.stderr[:100].replace('\n', ' ') if result.stderr else "no stderr"
StderrPreview(stderr) ==
    IF stderr = <<>> THEN <<"no stderr">>
    ELSE [i \in 1..(IF Len(stderr) < PreviewLen THEN Len(stderr) ELSE PreviewLen) |->
             IF stderr[i] = "\n" THEN " " ELSE stderr[i]]

\* f"Script exit {result.returncode}: {stderr_preview}"
ScriptExitError(returncode, stderr) ==
    [kind |-> "Script exit", code |-> returncode, text |-> StderrPreview(stderr)]

\* "Timeout after 90s"
TimeoutError == [kind |-> "Timeout after 90s", code |-> 0, text |-> <<>>]

\* f"{type(e).__name__}: {str(e)}"
LaunchError == [kind |-> "OSError", code |-> 0, text |-> <<"cannot", " ", "run">>]

\* f"{type(e).__name__}: {str(e)}" and f"Parse error: {str(e)}" for the exception
\* a listener, or a scheduler, raises
ListenerError == [kind |-> "RuntimeError", code |-> 0, text |-> <<"listener">>]
ParseError == [kind |-> "Parse error", code |-> 0, text |-> <<"listener">>]

\* f"Got ?? values (parsed {len(data)} keys)"
InvalidError(data) == [kind |-> "Got ?? values", code |-> Cardinality(data), text |-> <<>>]

\* the status labels, without their time of day
Status(label, n) == [label |-> label, num |-> n]
NoStatus == Status("", 0)

\* what the script can write to standard output with exit code 0
OutValid == <<"SESSION_REMAINING", "=", "4", "2", "\n",
              "WEEKLY_REMAINING", "=", "8", "8", "\n">>
OutValidPlan == <<"#", " ", "usage", "\n",
                  "SESSION_REMAINING", " ", "=", " ", "7", "\n",
                  "WEEKLY_REMAINING", "=", "8", "8", "\n",
                  "\n",
                  "PLAN_TYPE", "=", "a", "=", "b", "\n">>
OutUnknown == <<"SESSION_REMAINING", "=", "?", "?", "\n",
                "WEEKLY_REMAINING", "=", "5", "0", "\n">>
OutEmpty == <<>>
Stdouts == {OutValid, OutValidPlan, OutUnknown, OutEmpty}

Stderrs == {<<"disk", "\n", "full">>}
ReturnCodes == {1}

\* what subprocess.run can end with: a CompletedProcess, TimeoutExpired, or
\* another exception (the script could not be started)
Results ==
    {[kind |-> "exit", returncode |-> 0, stdout |-> o, stderr |-> <<>>] : o \in Stdouts}
    \cup {[kind |-> "exit", returncode |-> c, stdout |-> <<>>, stderr |-> e] :
             c \in ReturnCodes, e \in Stderrs}
    \cup {[kind |-> "timeout", returncode |-> 0, stdout |-> <<>>, stderr |-> <<>>],
          [kind |-> "raise", returncode |-> 0, stdout |-> <<>>, stderr |-> <<>>]}

\* what the script can end with besides: with a non-zero exit code and nothing
\* on standard error, as much as fits the preview, a newline in it, or more than
\* fits; with exit code 0 and output that does not validate
DiskFull == <<"d", "i", "s", "k", " ", "f", "u", "l", "l">>
TwoLines == <<"a", "\n", "b">>
LongText == [i \in 1..(PreviewLen + 1) |-> IF i = PreviewLen THEN "\n" ELSE "x"]
OutDuplicate == <<"SESSION_REMAINING", "=", "4", "\n",
                  "SESSION_REMAINING", "=", "5", "\n">>

OutcomeResults ==
    {[kind |-> "exit", returncode |-> 1, stdout |-> <<>>, stderr |-> e] :
        e \in {<<>>, DiskFull, TwoLines, LongText}}
    \cup {[kind |-> "exit", returncode |-> 2, stdout |-> <<>>, stderr |-> DiskFull]}
    \cup {[kind |-> "exit", returncode |-> 0, stdout |-> o, stderr |-> <<>>] :
             o \in {OutValid, OutUnknown, OutEmpty, OutDuplicate}}

\* the fields of the UsageFetcher object
VARIABLES last_good_data, last_successful_fetch, last_error, fetch_count,
          is_fetching, is_stale, on_update

\* self._schedule_on_main_thread: a scheduler is set
VARIABLE schedule_on_main_thread

\* calls: fetch_async calls so far; worker t is the thread the t-th call started
\* th[t]: where worker t is in _do_fetch, and its locals
VARIABLES calls, th

\* what has happened, kept for stating the properties:
\* sent[t]: the statuses (without their numbers) of the notifications worker t
\*          has delivered, in order
\* note: the state dict of the notification delivered last, where the reads that
\*       fill the dict are followed one by one (NotifySpec); every notification
\*       is the one delivered last in the state that follows its delivery
\* runs: the calls of subprocess.run so far
\* solo[t]: worker t is running and no other worker has been running since it
\*          started
\* result[t]: what subprocess.run ended with for worker t, while solo[t]
\* last: the worker of the attempt that was the last to complete and what
\*       subprocess.run ended with for it, when no other worker was running at
\*       any time that one was
\* instants: the values the fetcher's fields have had together at one instant,
\*           where they are followed (SnapshotSpec)
\* via[t]: for each notification in sent[t], what the fetcher called to deliver
\*         it: the listener ("direct") or the scheduler ("scheduler")
VARIABLES sent, note, runs, result, solo, last, instants, via

\* rt: a dict written out as KEY=value lines and parsed back (ParseSpec): the
\*     dict's entries in their order, the text, the dict parsed from it
VARIABLE rt

\* dv: a value given to get_display_values and the record it returns
VARIABLE dv

fetcher == <<last_good_data, last_successful_fetch, last_error, fetch_count,
             is_fetching, is_stale>>
vars == <<last_good_data, last_successful_fetch, last_error, fetch_count,
          is_fetching, is_stale, on_update, schedule_on_main_thread, calls, th,
          sent, note, runs, result, solo, last, instants, via, rt, dv>>

\* the fetcher's fields as _notify_update reports them
FetcherState ==
    [data |-> last_good_data, is_stale |-> is_stale, error |-> last_error,
     fetch_count |-> fetch_count, last_successful_fetch |-> last_successful_fetch,
     is_fetching |-> is_fetching]

\* the dict _notify_update fills in, before any field is read
NoState == [data |-> None, is_stale |-> FALSE, error |-> NoError, status |-> NoStatus,
            fetch_count |-> 0, last_successful_fetch |-> Never, is_fetching |-> FALSE]

NoResult == [kind |-> "none", returncode |-> 0, stdout |-> <<>>, stderr |-> <<>>]

NoLast == [worker |-> 0, result |-> NoResult]

Unborn == [pc |-> "unborn", tmp |-> 0, fetch_num |-> 0, data |-> {}, err |-> NoError,
           status |-> NoStatus, error |-> NoError, ret |-> "", state |-> NoState]

NoRoundTrip == [stage |-> "off", entries |-> <<>>, text |-> <<>>, parsed |-> {}]

NoDisplay == [stage |-> "off", data |-> None, values |-> <<>>]

\* UsageFetcher.__init__
FetcherInit ==
    /\ last_good_data = None
    /\ last_successful_fetch = Never
    /\ last_error = NoError
    /\ fetch_count = 0
    /\ is_fetching = FALSE
    /\ is_stale = FALSE
    /\ on_update \in BOOLEAN
    /\ schedule_on_main_thread = FALSE
    /\ calls = 0
    /\ th = [t \in Threads |-> Unborn]
    /\ sent = [t \in Threads |-> <<>>]
    /\ via = [t \in Threads |-> <<>>]
    /\ note = NoState
    /\ result = [t \in Threads |-> NoResult]
    /\ solo = [t \in Threads |-> FALSE]
    /\ last = NoLast
    /\ runs = 0
    /\ instants = {FetcherState}

Init == FetcherInit /\ rt = NoRoundTrip /\ dv = NoDisplay

Running(t) == th[t].pc \notin {"unborn", "done"}

At(t, label) == th[t].pc = label

\* worker t goes on with the locals in r changed
Goto(t, r) == th' = [th EXCEPT ![t] = r]

\* set_main_thread_scheduler(scheduler)
set_main_thread_scheduler ==
    /\ schedule_on_main_thread' = TRUE
    /\ UNCHANGED <<fetcher, on_update, calls, th, sent, via, note, runs, result, solo,
                   last>>

\* fetch_async that starts nothing while a fetch is in flight
FetchAsyncUnlessFetching ==
    /\ ~is_fetching
    /\ calls < MaxCalls
    /\ calls' = calls + 1
    /\ th' = [th EXCEPT ![calls + 1].pc = "inc_read"]
    /\ solo' = [t \in Threads |-> t = calls + 1 /\ \A u \in Threads : ~Running(u)]
    /\ result' = [t \in Threads |-> NoResult]
    /\ UNCHANGED <<fetcher, on_update, schedule_on_main_thread, sent, via, note, runs, last>>

\* fetch_async: start a worker on _do_fetch
fetch_async ==
    /\ calls < MaxCalls
    /\ calls' = calls + 1
    /\ th' = [th EXCEPT ![calls + 1].pc = "inc_read"]
    /\ solo' = [t \in Threads |-> t = calls + 1 /\ \A u \in Threads : ~Running(u)]
    /\ result' = [t \in Threads |-> NoResult]
    /\ UNCHANGED <<fetcher, on_update, schedule_on_main_thread, sent, via, note, runs, last>>

\* self.fetch_count += 1, the read of the field
IncRead(t) ==
    /\ At(t, "inc_read")
    /\ Goto(t, [th[t] EXCEPT !.pc = "inc_write", !.tmp = fetch_count])
    /\ UNCHANGED <<fetcher, on_update, schedule_on_main_thread, calls, sent, via, note, runs, result, solo, last>>

\* self.fetch_count += 1, the write of the field
IncWrite(t) ==
    /\ At(t, "inc_write")
    /\ fetch_count' = th[t].tmp + 1
    /\ Goto(t, [th[t] EXCEPT !.pc = "set_fetching", !.tmp = 0])
    /\ UNCHANGED <<last_good_data, last_successful_fetch, last_error, is_fetching,
                   is_stale, on_update, schedule_on_main_thread, calls, sent, via, note, runs, result, solo, last>>

\* self.is_fetching = True
SetFetching(t) ==
    /\ At(t, "set_fetching")
    /\ is_fetching' = TRUE
    /\ Goto(t, [th[t] EXCEPT !.pc = "read_num"])
    /\ UNCHANGED <<last_good_data, last_successful_fetch, last_error, fetch_count,
                   is_stale, on_update, schedule_on_main_thread, calls, sent, via, note, runs, result, solo, last>>

\* fetch_num = self.fetch_count, and the call
\* self._notify_update(f"Fetching #{fetch_num} ...") that follows it
ReadFetchNum(t) ==
    /\ At(t, "read_num")
    /\ Goto(t, [th[t] EXCEPT !.pc = "n_data", !.fetch_num = fetch_count,
                             !.status = Status("Fetching", fetch_count),
                             !.error = NoError, !.ret = "run"])
    /\ UNCHANGED <<fetcher, on_update, schedule_on_main_thread, calls, sent, via, note, runs, result, solo, last>>

\* ----------------------------------------------------------- _notify_update
\* the listener is always called directly, whether a scheduler is set or not
DeliverDirect == "direct"

\* `if self._schedule_on_main_thread:` the scheduler is called with the listener
\* and the dict, else the listener is called with the dict
Deliver == IF schedule_on_main_thread THEN "scheduler" ELSE "direct"

\* the worker leaves _notify_update
Return(t) ==
    IF th[t].ret = "done"
    THEN /\ Goto(t, [Unborn EXCEPT !.pc = "done"])
         /\ last' = IF solo[t] THEN [worker |-> t, result |-> result[t]] ELSE NoLast
         /\ result' = [result EXCEPT ![t] = NoResult]
         /\ solo' = [solo EXCEPT ![t] = FALSE]
    ELSE /\ Goto(t, [th[t] EXCEPT !.pc = th[t].ret, !.state = NoState,
                                  !.status = NoStatus, !.error = NoError, !.ret = ""])
         /\ UNCHANGED <<result, solo, last>>

\* A call of _notify_update as far as the fetcher's fields and the worker's path
\* go: `if not self.on_update: return`, else the listener is called once with the
\* status and returns.  The error argument and the dict's other entries are reads
\* that change nothing; NotifyErrorArg .. NotifyFetching below follow them one by
\* one.
Notify(t) ==
    /\ At(t, "n_error_arg") \/ At(t, "n_data")
    /\ sent' = [sent EXCEPT ![t] = IF on_update THEN Append(@, th[t].status.label)
                                   ELSE @]
    /\ via' = [via EXCEPT ![t] = IF on_update THEN Append(@, Deliver) ELSE @]
    /\ Return(t)
    /\ UNCHANGED <<fetcher, on_update, schedule_on_main_thread, calls, note, runs>>

\* self._notify_update(f"... @ ...", self.last_error): the read of the argument
NotifyErrorArg(t) ==
    /\ At(t, "n_error_arg")
    /\ Goto(t, [th[t] EXCEPT !.pc = "n_data", !.error = last_error])
    /\ UNCHANGED <<fetcher, on_update, schedule_on_main_thread, calls, sent, via, note, runs, result, solo, last>>

\* `if not self.on_update: return`, else 'data': self.last_good_data
NotifyData(t) ==
    /\ At(t, "n_data")
    /\ IF on_update
       THEN /\ Goto(t, [th[t] EXCEPT !.pc = "n_stale",
                                     !.state = [NoState EXCEPT !.data = last_good_data]])
            /\ UNCHANGED <<result, solo, last>>
       ELSE Return(t)
    /\ UNCHANGED <<fetcher, on_update, schedule_on_main_thread, calls, sent, via, note, runs>>

\* 'is_stale': self.is_stale
NotifyStale(t) ==
    /\ At(t, "n_stale")
    /\ Goto(t, [th[t] EXCEPT !.pc = "n_error", !.state.is_stale = is_stale])
    /\ UNCHANGED <<fetcher, on_update, schedule_on_main_thread, calls, sent, via, note, runs, result, solo, last>>

\* 'error': error or self.last_error, and 'status': status
NotifyError(t) ==
    /\ At(t, "n_error")
    /\ Goto(t, [th[t] EXCEPT !.pc = "n_count",
                             !.state.error = IF th[t].error # NoError THEN th[t].error
                                             ELSE last_error,
                             !.state.status = th[t].status])
    /\ UNCHANGED <<fetcher, on_update, schedule_on_main_thread, calls, sent, via, note, runs, result, solo, last>>

\* 'fetch_count': self.fetch_count
NotifyCount(t) ==
    /\ At(t, "n_count")
    /\ Goto(t, [th[t] EXCEPT !.pc = "n_lsf", !.state.fetch_count = fetch_count])
    /\ UNCHANGED <<fetcher, on_update, schedule_on_main_thread, calls, sent, via, note, runs, result, solo, last>>

\* 'last_successful_fetch': self.last_successful_fetch
NotifyLastSuccessful(t) ==
    /\ At(t, "n_lsf")
    /\ Goto(t, [th[t] EXCEPT !.pc = "n_fetching",
                             !.state.last_successful_fetch = last_successful_fetch])
    /\ UNCHANGED <<fetcher, on_update, schedule_on_main_thread, calls, sent, via, note, runs, result, solo, last>>

\* 'is_fetching': self.is_fetching, then the listener is called with the dict
\* and returns
NotifyFetching(t) ==
    /\ At(t, "n_fetching")
    /\ sent' = [sent EXCEPT ![t] = Append(@, th[t].status.label)]
    /\ via' = [via EXCEPT ![t] = Append(@, Deliver)]
    /\ note' = [th[t].state EXCEPT !.is_fetching = is_fetching]
    /\ Return(t)
    /\ UNCHANGED <<fetcher, on_update, schedule_on_main_thread, calls, runs>>

\* ---------------------------------------------------------------- _do_fetch
\* where _do_fetch goes on after subprocess.run ended with r, and the value
\* it is about to store in last_error
AfterRun(r) ==
    CASE r.kind = "timeout" ->
           [pc |-> "set_error", err |-> TimeoutError, status |-> Status("Timeout", 0),
            data |-> {}]
      [] r.kind = "raise" ->
           [pc |-> "set_error", err |-> LaunchError, status |-> Status("Error", 0),
            data |-> {}]
      [] r.kind = "exit" /\ r.returncode # 0 ->
           [pc |-> "set_error", err |-> ScriptExitError(r.returncode, r.stderr),
            status |-> Status("Error", 0), data |-> {}]
      [] OTHER ->
           IF HasValidData(Parse(r.stdout))
           THEN [pc |-> "store_data", err |-> NoError, status |-> NoStatus,
                 data |-> Parse(r.stdout)]
           ELSE [pc |-> "set_error", err |-> InvalidError(Parse(r.stdout)),
                 status |-> Status("Invalid data", 0), data |-> {}]

\* AfterRun, worked out once for each result
AfterRunOf == [r \in Results \cup OutcomeResults |-> AfterRun(r)]

\* subprocess.run ends with one of the results in R and is_fetching stays as it
\* is
SubprocessRunKeepsFetching(t, R, keep) ==
    /\ At(t, "run")
    /\ \E r \in R :
          /\ result' = [result EXCEPT ![t] = IF solo[t] \/ keep THEN r ELSE NoResult]
          /\ Goto(t, [th[t] EXCEPT !.pc = AfterRunOf[r].pc, !.err = AfterRunOf[r].err,
                                   !.status = AfterRunOf[r].status,
                                   !.data = AfterRunOf[r].data])
    /\ runs' = runs + 1
    /\ UNCHANGED <<fetcher, on_update, schedule_on_main_thread, calls, sent, via, note,
                   solo, last>>

\* subprocess.run(...) ends with one of the results in R, and
\* self.is_fetching = False (on each of the three ways out of the call); with
\* exit code 0 the output is parsed.  The result is kept in result[t] while the
\* worker is solo, or as long as the worker runs when keep is set.
SubprocessRunOf(t, R, keep) ==
    /\ At(t, "run")
    /\ \E r \in R :
          /\ result' = [result EXCEPT ![t] = IF solo[t] \/ keep THEN r ELSE NoResult]
          /\ Goto(t, [th[t] EXCEPT !.pc = AfterRunOf[r].pc, !.err = AfterRunOf[r].err,
                                   !.status = AfterRunOf[r].status,
                                   !.data = AfterRunOf[r].data])
    /\ is_fetching' = FALSE
    /\ runs' = runs + 1
    /\ UNCHANGED <<last_good_data, last_successful_fetch, last_error, fetch_count,
                   is_stale, on_update, schedule_on_main_thread, calls, sent, via, note, solo, last>>

SubprocessRun(t) == SubprocessRunOf(t, Results, FALSE)

\* a failure that also drops the data of the last good fetch
SetLastErrorDroppingData(t) ==
    /\ At(t, "set_error")
    /\ last_error' = th[t].err
    /\ last_good_data' = None
    /\ Goto(t, [th[t] EXCEPT !.pc = "set_stale", !.err = NoError])
    /\ UNCHANGED <<last_successful_fetch, fetch_count, is_fetching,
                   is_stale, on_update, schedule_on_main_thread, calls, sent, via, note, runs, result, solo, last>>

\* self.last_error = ... of a failed or invalid attempt
SetLastError(t) ==
    /\ At(t, "set_error")
    /\ last_error' = th[t].err
    /\ Goto(t, [th[t] EXCEPT !.pc = "set_stale", !.err = NoError])
    /\ UNCHANGED <<last_good_data, last_successful_fetch, fetch_count, is_fetching,
                   is_stale, on_update, schedule_on_main_thread, calls, sent, via, note, runs, result, solo, last>>

\* self.is_stale = True, and the call
\* self._notify_update(f"... @ ...", self.last_error) that follows it
SetStale(t) ==
    /\ At(t, "set_stale")
    /\ is_stale' = TRUE
    /\ Goto(t, [th[t] EXCEPT !.pc = "n_error_arg", !.ret = "done"])
    /\ UNCHANGED <<last_good_data, last_successful_fetch, last_error, fetch_count,
                   is_fetching, on_update, schedule_on_main_thread, calls, sent, via, note, runs, result, solo, last>>

\* ------------------------------------------------------------ _parse_output
\* a validated attempt that does not store its data
StoreGoodDataSkipped(t) ==
    /\ At(t, "store_data")
    /\ Goto(t, [th[t] EXCEPT !.pc = "store_time", !.data = {}])
    /\ UNCHANGED <<fetcher, on_update, schedule_on_main_thread, calls, sent, via, note, runs, result, solo, last>>

\* self.last_good_data = data.copy()
StoreGoodData(t) ==
    /\ At(t, "store_data")
    /\ last_good_data' = Some(th[t].data)
    /\ Goto(t, [th[t] EXCEPT !.pc = "store_time", !.data = {}])
    /\ UNCHANGED <<last_successful_fetch, last_error, fetch_count, is_fetching,
                   is_stale, on_update, schedule_on_main_thread, calls, sent, via, note, runs, result, solo, last>>

\* self.last_successful_fetch = datetime.now()
StoreFetchTime(t) ==
    /\ At(t, "store_time")
    /\ last_successful_fetch' = t
    /\ Goto(t, [th[t] EXCEPT !.pc = "clear_stale"])
    /\ UNCHANGED <<last_good_data, last_error, fetch_count, is_fetching,
                   is_stale, on_update, schedule_on_main_thread, calls, sent, via, note, runs, result, solo, last>>

\* a validated attempt that leaves is_stale as it was
ClearStaleSkipped(t) ==
    /\ At(t, "clear_stale")
    /\ Goto(t, [th[t] EXCEPT !.pc = "clear_error"])
    /\ UNCHANGED <<fetcher, on_update, schedule_on_main_thread, calls, sent, via, note, runs, result, solo, last>>

\* self.is_stale = False
ClearStale(t) ==
    /\ At(t, "clear_stale")
    /\ is_stale' = FALSE
    /\ Goto(t, [th[t] EXCEPT !.pc = "clear_error"])
    /\ UNCHANGED <<last_good_data, last_successful_fetch, last_error, fetch_count,
                   is_fetching, on_update, schedule_on_main_thread, calls, sent, via, note, runs, result, solo, last>>

\* a validated attempt that ends without its notification
ClearErrorSilent(t) ==
    /\ At(t, "clear_error")
    /\ last_error' = NoError
    /\ Goto(t, [Unborn EXCEPT !.pc = "done"])
    /\ UNCHANGED <<last_good_data, last_successful_fetch, fetch_count, is_fetching,
                   is_stale, on_update, schedule_on_main_thread, calls, sent, via, note, runs, result, solo, last>>

\* self.last_error = None, and the call
\* self._notify_update(f"OK (fetch #{fetch_num}) @ ...") that follows it
ClearError(t) ==
    /\ At(t, "clear_error")
    /\ last_error' = NoError
    /\ Goto(t, [th[t] EXCEPT !.pc = "n_data", !.status = Status("OK", th[t].fetch_num),
                             !.error = NoError, !.ret = "done"])
    /\ UNCHANGED <<last_good_data, last_successful_fetch, fetch_count, is_fetching,
                   is_stale, on_update, schedule_on_main_thread, calls, sent, via, note, runs, result, solo, last>>

\* one step of worker t outside _notify_update and subprocess.run
FieldStep(t) ==
    \/ IncRead(t) \/ IncWrite(t) \/ SetFetching(t) \/ ReadFetchNum(t)
    \/ SetLastError(t) \/ SetStale(t)
    \/ StoreGoodData(t) \/ StoreFetchTime(t) \/ ClearStale(t) \/ ClearError(t)

\* one step of worker t outside _notify_update
Step(t) == FieldStep(t) \/ SubprocessRun(t)

\* one step of worker t inside _notify_update, read by read
NotifyStep(t) ==
    \/ NotifyErrorArg(t) \/ NotifyData(t) \/ NotifyStale(t) \/ NotifyError(t) \/ NotifyCount(t)
    \/ NotifyLastSuccessful(t) \/ NotifyFetching(t)

\* the instants of the fetcher are not followed, or are
Untracked == UNCHANGED <<instants, rt, dv>>
Tracked == instants' = instants \cup {FetcherState'} /\ UNCHANGED <<rt, dv>>

Next ==
    \/ fetch_async /\ Untracked
    \/ \E t \in Threads : Step(t) /\ Untracked
    \/ \E t \in Threads : Notify(t) /\ Untracked

Spec == Init /\ [][Next]_vars

\* Each worker is a thread of its own that the interpreter keeps scheduling, and
\* subprocess.run ends after 90 seconds at the latest: a worker that can take a
\* step takes it.
FairSpec == Spec /\ \A t \in Threads : WF_vars((Step(t) \/ Notify(t)) /\ Untracked)

NotifyNext ==
    \/ fetch_async /\ Untracked
    \/ \E t \in Threads : Step(t) /\ Untracked
    \/ \E t \in Threads : NotifyStep(t) /\ Untracked

NotifySpec == Init /\ [][NotifyNext]_vars

SnapshotNext ==
    \/ fetch_async /\ Tracked
    \/ \E t \in Threads : Step(t) /\ Tracked
    \/ \E t \in Threads : NotifyStep(t) /\ Tracked

SnapshotSpec == Init /\ [][SnapshotNext]_vars

\* the fetcher with a scheduler set at some time, or never
SchedulerNext ==
    \/ set_main_thread_scheduler /\ Untracked
    \/ fetch_async /\ Untracked
    \/ \E t \in Threads : Step(t) /\ Untracked
    \/ \E t \in Threads : Notify(t) /\ Untracked

SchedulerSpec == Init /\ [][SchedulerNext]_vars

\* the fetcher with the script ending in one of OutcomeResults, each worker's
\* result kept while it runs, and the reads of _notify_update followed
OutcomeNext ==
    \/ fetch_async /\ Untracked
    \/ \E t \in Threads : FieldStep(t) /\ Untracked
    \/ \E t \in Threads : SubprocessRunOf(t, OutcomeResults, TRUE) /\ Untracked
    \/ \E t \in Threads : NotifyStep(t) /\ Untracked

OutcomeSpec == Init /\ [][OutcomeNext]_vars

\* ------------------------------------------------- a listener that raises
\* The call of the listener (line 62), or of the scheduler (line 60), raises an
\* exception.  It leaves _notify_update and goes to the handler around the call
\* of _notify_update, if there is one.

\* the exception leaves _do_fetch: the worker's thread ends
Propagate(t) ==
    /\ Goto(t, [Unborn EXCEPT !.pc = "done"])
    /\ last' = IF solo[t] THEN [worker |-> t, result |-> result[t]] ELSE NoLast
    /\ result' = [result EXCEPT ![t] = NoResult]
    /\ solo' = [solo EXCEPT ![t] = FALSE]

\* the exception is caught and the worker goes on in the handler at label
Caught(t, label) ==
    /\ Goto(t, [th[t] EXCEPT !.pc = label, !.status = NoStatus, !.error = NoError,
                             !.ret = ""])
    /\ UNCHANGED <<result, solo, last>>

\* the listener raises in a notification of _do_fetch or _parse_output:
\* the start notification (line 75) is outside the try statement;
\* those of _parse_output (lines 131, 135) are caught at line 137;
\* that of a non-zero exit (line 94) is caught at line 106;
\* those of the handlers of _do_fetch (lines 104, 110) are inside no try
NotifyRaises(t) ==
    /\ At(t, "n_error_arg") \/ At(t, "n_data")
    /\ on_update
    /\ sent' = [sent EXCEPT ![t] = Append(@, th[t].status.label)]
    /\ via' = [via EXCEPT ![t] = Append(@, Deliver)]
    /\ IF th[t].ret = "run" THEN Propagate(t)
       ELSE IF result[t].kind = "exit" /\ result[t].returncode = 0
            THEN Caught(t, "p_error")
       ELSE IF result[t].kind = "exit" THEN Caught(t, "h_fetching")
       ELSE Propagate(t)
    /\ UNCHANGED <<fetcher, on_update, schedule_on_main_thread, calls, note, runs>>

\* except Exception as e: self.last_error = f"Parse error: {str(e)}"
ParseErrorSet(t) ==
    /\ At(t, "p_error")
    /\ last_error' = ParseError
    /\ Goto(t, [th[t] EXCEPT !.pc = "p_stale"])
    /\ UNCHANGED <<last_good_data, last_successful_fetch, fetch_count, is_fetching,
                   is_stale, on_update, schedule_on_main_thread, calls, sent, via, note,
                   runs, result, solo, last>>

\* self.is_stale = True of the handler of _parse_output
ParseErrorStale(t) ==
    /\ At(t, "p_stale")
    /\ is_stale' = TRUE
    /\ Goto(t, [th[t] EXCEPT !.pc = "p_notify"])
    /\ UNCHANGED <<last_good_data, last_successful_fetch, last_error, fetch_count,
                   is_fetching, on_update, schedule_on_main_thread, calls, sent, via,
                   note, runs, result, solo, last>>

\* self._notify_update(f"Parse error @ ...", self.last_error): the listener
\* returns and the worker ends, or raises again, which line 106 catches
ParseErrorNotify(t) ==
    /\ At(t, "p_notify")
    /\ sent' = [sent EXCEPT ![t] = Append(@, "Parse error")]
    /\ via' = [via EXCEPT ![t] = Append(@, Deliver)]
    /\ \/ Propagate(t)
       \/ Caught(t, "h_fetching")
    /\ UNCHANGED <<fetcher, on_update, schedule_on_main_thread, calls, note, runs>>

\* except Exception as e: self.is_fetching = False
HandlerFetching(t) ==
    /\ At(t, "h_fetching")
    /\ is_fetching' = FALSE
    /\ Goto(t, [th[t] EXCEPT !.pc = "h_error"])
    /\ UNCHANGED <<last_good_data, last_successful_fetch, last_error, fetch_count,
                   is_stale, on_update, schedule_on_main_thread, calls, sent, via, note,
                   runs, result, solo, last>>

\* self.last_error = f"{type(e).__name__}: {str(e)}"
HandlerError(t) ==
    /\ At(t, "h_error")
    /\ last_error' = ListenerError
    /\ Goto(t, [th[t] EXCEPT !.pc = "h_stale"])
    /\ UNCHANGED <<last_good_data, last_successful_fetch, fetch_count, is_fetching,
                   is_stale, on_update, schedule_on_main_thread, calls, sent, via, note,
                   runs, result, solo, last>>

\* self.is_stale = True of the handler of _do_fetch
HandlerStale(t) ==
    /\ At(t, "h_stale")
    /\ is_stale' = TRUE
    /\ Goto(t, [th[t] EXCEPT !.pc = "h_notify"])
    /\ UNCHANGED <<last_good_data, last_successful_fetch, last_error, fetch_count,
                   is_fetching, on_update, schedule_on_main_thread, calls, sent, via,
                   note, runs, result, solo, last>>

\* self._notify_update(f"Error @ ...", self.last_error) of the handler: the
\* listener returns, or raises and the exception leaves _do_fetch; the worker
\* ends either way
HandlerNotify(t) ==
    /\ At(t, "h_notify")
    /\ sent' = [sent EXCEPT ![t] = Append(@, "Error")]
    /\ via' = [via EXCEPT ![t] = Append(@, Deliver)]
    /\ Propagate(t)
    /\ UNCHANGED <<fetcher, on_update, schedule_on_main_thread, calls, note, runs>>

\* one step of worker t that a raising listener brings about
RaiseStep(t) ==
    \/ NotifyRaises(t)
    \/ ParseErrorSet(t) \/ ParseErrorStale(t) \/ ParseErrorNotify(t)
    \/ HandlerFetching(t) \/ HandlerError(t) \/ HandlerStale(t) \/ HandlerNotify(t)

\* the fetcher with a listener that returns or raises, each worker's result kept
\* while it runs
RaiseNext ==
    \/ fetch_async /\ Untracked
    \/ \E t \in Threads : FieldStep(t) /\ Untracked
    \/ \E t \in Threads : SubprocessRunOf(t, Results, TRUE) /\ Untracked
    \/ \E t \in Threads : Notify(t) /\ Untracked
    \/ \E t \in Threads : RaiseStep(t) /\ Untracked

RaiseSpec == Init /\ [][RaiseNext]_vars

\* ------------------------------------------------- the parser on its own
\* the characters of the texts tried: a letter, and those the parser looks at
Chars == {"a", "=", "#", " ", "\n"}
KeyChars == Chars \ {"=", "\n"}

TextsUpTo(S, n) == UNION {[1..m -> S] : m \in 0..n}

\* an entry with a key of no character tried, to make a second line
OtherEntry == <<(<<"b">>), <<"1">> >>

\* the dicts tried, as the sequence of their entries: none, one entry with any
\* key without '=' and newline and any value, and that entry before or after
\* OtherEntry
Dicts ==
    {<<>>}
    \cup UNION {{<<(<<k, v>>)>>, <<(<<k, v>>), OtherEntry>>, <<OtherEntry, (<<k, v>>)>>} :
                   k \in TextsUpTo(KeyChars, MaxKeyLen),
                   v \in TextsUpTo(Chars, MaxValueLen)}

\* one KEY=value line per entry
RECURSIVE WriteEntries(_)
WriteEntries(entries) ==
    IF entries = <<>> THEN <<>>
    ELSE Head(entries)[1] \o <<"=">> \o Head(entries)[2] \o <<"\n">>
         \o WriteEntries(Tail(entries))

Range(f) == {f[i] : i \in DOMAIN f}

ParseInit ==
    /\ FetcherInit
    /\ rt \in {[stage |-> "dict", entries |-> d, text |-> <<>>, parsed |-> {}] : d \in Dicts}
    /\ dv = NoDisplay

\* the dict is written out
WriteLines ==
    /\ rt.stage = "dict"
    /\ rt' = [rt EXCEPT !.stage = "text", !.text = WriteEntries(rt.entries)]
    /\ UNCHANGED <<fetcher, on_update, schedule_on_main_thread, calls, th, sent, via,
                   note, runs, result, solo, last, instants, dv>>

\* the text is parsed as _parse_output parses the script's output
ParseBack ==
    /\ rt.stage = "text"
    /\ rt' = [rt EXCEPT !.stage = "parsed", !.parsed = Parse(rt.text)]
    /\ UNCHANGED <<fetcher, on_update, schedule_on_main_thread, calls, th, sent, via,
                   note, runs, result, solo, last, instants, dv>>

ParseNext == WriteLines \/ ParseBack

ParseSpec == ParseInit /\ [][ParseNext]_vars

\* the parser on any text of the characters tried
TextInit ==
    /\ FetcherInit
    /\ rt \in {[stage |-> "text", entries |-> <<>>, text |-> x, parsed |-> {}] :
                  x \in TextsUpTo(Chars, MaxTextLen)}
    /\ dv = NoDisplay

TextNext == ParseBack

TextSpec == TextInit /\ [][TextNext]_vars

\* ------------------------------------------------- get_display_values
\* Optional[str]
NoText == [some |-> FALSE, val |-> <<>>]
Text(x) == [some |-> TRUE, val |-> x]

\* d.get(k)
GetOptional(d, k) == IF k \in Keys(d) THEN Text(Get(d, k, <<>>)) ELSE NoText

Dashes == <<"-", "-">>
True == <<"true">>

\* the record get_display_values returns `if not data`
DefaultValues ==
    [session_remaining |-> Dashes, weekly_remaining |-> Dashes,
     time_remaining_str |-> NoText, confidence |-> NoText, session_resets |-> NoText,
     weekly_resets |-> NoText, exhausts_before_reset |-> FALSE,
     account_email |-> NoText, plan_type |-> NoText, extra_pct |-> NoText]

\* the record get_display_values returns for a dict that is not empty
ValuesOf(d) ==
    [session_remaining |-> Get(d, SESSION_REMAINING, Unknown),
     weekly_remaining |-> Get(d, WEEKLY_REMAINING, Unknown),
     time_remaining_str |-> GetOptional(d, <<"TIME_REMAINING_STR">>),
     confidence |-> GetOptional(d, <<"CONFIDENCE">>),
     session_resets |-> GetOptional(d, <<"SESSION_RESETS">>),
     weekly_resets |-> GetOptional(d, <<"WEEKLY_RESETS">>),
     exhausts_before_reset |-> GetOptional(d, <<"EXHAUSTS_BEFORE_RESET">>) = Text(True),
     account_email |-> GetOptional(d, <<"ACCOUNT_EMAIL">>),
     plan_type |-> GetOptional(d, <<"PLAN_TYPE">>),
     extra_pct |-> GetOptional(d, <<"EXTRA_USED">>)]

\* get_display_values that gives the defaults for None only
GetDisplayValuesOfNone(data) == IF ~data.some THEN DefaultValues ELSE ValuesOf(data.val)

\* get_display_values(data): `not data` holds for None and for the empty dict
get_display_values(data) ==
    IF ~data.some \/ data.val = {} THEN DefaultValues ELSE ValuesOf(data.val)

\* the entries a dict given to get_display_values may hold for one key: none,
\* or the key with one of the values
Entry(k, values) == {{}} \cup {{<<k, v>>} : v \in values}

\* the values given to get_display_values: None, and the dicts with or without
\* each of five of the keys, among them the empty dict
DisplayInputs ==
    {None}
    \cup {Some(a \cup b \cup c \cup d \cup e) :
             a \in Entry(SESSION_REMAINING, {<<"4", "2">>, Unknown}),
             b \in Entry(WEEKLY_REMAINING, {<<"8", "8">>, Unknown}),
             c \in Entry(<<"EXHAUSTS_BEFORE_RESET">>, {True, <<"false">>}),
             d \in Entry(<<"PLAN_TYPE">>, {<<"pro">>}),
             e \in Entry(<<"ACCOUNT_EMAIL">>, {<<"a", "@", "b">>})}

DisplayInit ==
    /\ FetcherInit
    /\ rt = NoRoundTrip
    /\ dv \in {[stage |-> "in", data |-> x, values |-> <<>>] : x \in DisplayInputs}

\* v = get_display_values(data)
Display ==
    /\ dv.stage = "in"
    /\ dv' = [dv EXCEPT !.stage = "out", !.values = get_display_values(dv.data)]
    /\ UNCHANGED <<fetcher, on_update, schedule_on_main_thread, calls, th, sent, via,
                   note, runs, result, solo, last, instants, rt>>

DisplayNext == Display

DisplaySpec == DisplayInit /\ [][DisplayNext]_vars

\* ------------------------------------------------------------- properties
\* no worker is running
Idle == \A t \in Threads : ~Running(t)

\* worker t has set is_fetching and subprocess.run has not ended for it
InFlight(t) == th[t].pc \in {"read_num", "run"} \/ th[t].ret = "run"

\* worker t has finished `self.fetch_count += 1`
Incremented(t) == th[t].pc \notin {"unborn", "inc_read", "inc_write"}

\* subprocess.run has ended for worker t
PastRun(t) ==
    \/ th[t].pc \in {"set_error", "set_stale", "store_data", "store_time",
                     "clear_stale", "clear_error", "done"}
    \/ th[t].ret = "done"

\* worker t has written is_stale
HasSetStale(t) == th[t].pc \in {"clear_error", "done"} \/ th[t].ret = "done"

\* worker t is on the path of _parse_output that stores the data
OnValidPath(t) ==
    \/ th[t].pc \in {"store_data", "store_time", "clear_stale", "clear_error"}
    \/ th[t].ret = "done" /\ th[t].status.label = "OK"

\* both mandatory keys are in the dict with a value other than "??"
BothPresent(data) ==
    /\ \E p \in data : p[1] = SESSION_REMAINING /\ p[2] # Unknown
    /\ \E p \in data : p[1] = WEEKLY_REMAINING /\ p[2] # Unknown

\* the script ended with exit code 0 and output that validates
Validated(r) == r.kind = "exit" /\ r.returncode = 0 /\ BothPresent(Parse(r.stdout))

\* C1 (stickiness): last_good_data changes only in the step in which a worker
\* whose output validated stores its parsed dict; no step of a failed attempt
\* (non-zero exit, timeout, launch failure, invalid output) changes it, whatever
\* the interleaving of the workers.
Stickiness ==
    [][last_good_data' # last_good_data =>
          \E t \in Threads :
             /\ At(t, "store_data") /\ th'[t].pc = "store_time"
             /\ BothPresent(th[t].data)
             /\ last_good_data' = Some(th[t].data)]_vars

\* a timed out attempt has completed after a validated one, and the data is kept
StickinessWitness ==
    /\ Idle /\ last.result.kind = "timeout"
    /\ is_stale /\ last_error = TimeoutError
    /\ last_good_data.some

StaleIffNotValidated ==
    (Idle /\ last.worker # 0) =>
        /\ is_stale <=> ~Validated(last.result)
        /\ Validated(last.result) => last_error = NoError

\* an invalid output after a validated one: stale, with the data kept
StaleWitness ==
    /\ Idle /\ last.worker = 2 /\ last.result.stdout = OutUnknown
    /\ last.result.kind = "exit" /\ last.result.returncode = 0
    /\ is_stale /\ last_good_data.some

\* C4 as stated: is_fetching is true exactly when some attempt has started and
\* has not completed or failed (an attempt counts from the step that sets
\* is_fetching to the step in which subprocess.run ends for it).
IsFetchingIffInFlight == is_fetching <=> \E t \in Threads : InFlight(t)

\* C5 as stated: fetch_count is the number of attempts that have finished their
\* increment step.
FetchCountIsAttempts == fetch_count = Cardinality({t \in Threads : Incremented(t)})

\* C7: fetch_async can be called in every state, each call has started one
\* worker, each worker calls subprocess.run once, and subprocess.run is never
\* called more often than fetch_async.
NeverSuppressed ==
    /\ calls < MaxCalls => ENABLED fetch_async
    /\ Cardinality({t \in Threads : th[t].pc # "unborn"}) = calls
    /\ Cardinality({t \in Threads : PastRun(t)}) = runs
    /\ runs <= calls

\* fetch_async was called while a fetch was in flight, and started a worker
NeverSuppressedWitness ==
    /\ is_fetching
    /\ \E t, u \in Threads : t # u /\ InFlight(t) /\ Running(u)

\* C8: with exit code 0 the output validates exactly when both mandatory keys
\* are in the parsed dict with values other than "??"; an attempt that validated
\* and overlapped no other ends with last_good_data the whole parsed dict,
\* is_stale false, last_error null and last_successful_fetch its own time.
ValidationStoresParsed ==
    /\ \A t \in Threads :
          (result[t].kind = "exit" /\ result[t].returncode = 0) =>
              /\ OnValidPath(t) <=> BothPresent(Parse(result[t].stdout))
              /\ ~OnValidPath(t) => (PastRun(t) /\ ~At(t, "done"))
    /\ (Idle /\ last.worker # 0 /\ Validated(last.result)) =>
          /\ last_good_data = Some(Parse(last.result.stdout))
          /\ ~is_stale
          /\ last_error = NoError
          /\ last_successful_fetch = last.worker

\* the output with a comment, blanks, and an optional key has been stored
ValidationWitness ==
    /\ Idle /\ last.worker # 0 /\ last.result.stdout = OutValidPlan
    /\ last_good_data = Some({<<SESSION_REMAINING, <<"7">> >>,
                              <<WEEKLY_REMAINING, <<"8", "8">> >>,
                              <<(<<"PLAN_TYPE">>), <<"a", "=", "b">> >>})

\* the fields of a notification's state dict that report the fetcher's fields
Fields(n) ==
    [data |-> n.data, is_stale |-> n.is_stale, error |-> n.error,
     fetch_count |-> n.fetch_count, last_successful_fetch |-> n.last_successful_fetch,
     is_fetching |-> n.is_fetching]

\* C6 as stated: the state dict of every notification holds the values the
\* fetcher's fields had together at one single instant.
NotifiedStateIsOneInstant == note.status # NoStatus => Fields(note) \in instants

\* the statuses of a completion notification
Completions == {"OK", "Invalid data", "Error", "Timeout", "Parse error"}

\* what worker t has delivered so far is what _do_fetch has passed: nothing
\* before the start notification, the start notification alone until
\* subprocess.run has ended, and after it at most one completion notification
SentInOrder(t) ==
    /\ Len(sent[t]) <= 2
    /\ Len(sent[t]) >= 1 => sent[t][1] = "Fetching"
    /\ Len(sent[t]) = 2 => sent[t][2] \in Completions /\ PastRun(t)
    /\ th[t].pc \in {"unborn", "inc_read", "inc_write", "set_fetching", "read_num"}
          => sent[t] = <<>>
    /\ (At(t, "run") \/ (PastRun(t) /\ ~At(t, "done"))) => Len(sent[t]) = 1
    /\ At(t, "done") => Len(sent[t]) = 2

\* C9: with a listener registered, each worker delivers first one start
\* notification, then, once subprocess.run has ended, one completion
\* notification, and no other; every started worker delivers both.
NotificationOrder ==
    /\ [](on_update => \A t \in Threads : SentInOrder(t))
    /\ \A t \in Threads :
          (on_update /\ th[t].pc # "unborn") ~> (At(t, "done") /\ Len(sent[t]) = 2)

\* two workers have delivered their two notifications each, one after a
\* validated fetch and one after a timeout
NotificationOrderWitness ==
    /\ on_update
    /\ sent[1] = <<"Fetching", "OK">>
    /\ sent[2] = <<"Fetching", "Timeout">>

\* C10 as stated: a dict whose keys hold no '=' and no newline, written as
\* KEY=value lines and parsed, comes back as it was.
RoundTrip == rt.stage = "parsed" => rt.parsed = Range(rt.entries)

\* str.strip() leaves the text as it is
Stripped(s) == Strip(s) = s

\* C10 as amended: the dict comes back as it was when, beyond that, no key
\* starts with '#', no key and no value starts or ends with whitespace, and no
\* value holds a newline.
RoundTripOfPlain ==
    (/\ rt.stage = "parsed"
     /\ \A e \in Range(rt.entries) :
           /\ Stripped(e[1]) /\ ~StartsWithHash(e[1])
           /\ Stripped(e[2]) /\ ~Contains(e[2], "\n"))
        => rt.parsed = Range(rt.entries)

\* a dict of two entries, one with '=' and '#' in its value, has come back
RoundTripWitness ==
    /\ rt.stage = "parsed"
    /\ rt.entries = <<OtherEntry, <<(<<"a">>), <<"=", " ", "#">> >> >>
    /\ rt.parsed = {OtherEntry, <<(<<"a">>), <<"=", " ", "#">> >>}

\* C11 as stated: for every mapping given to get_display_values, the one with no
\* keys included, a missing SESSION_REMAINING (WEEKLY_REMAINING) is shown as
\* "??", and only None gives the record of the defaults with "--".
DisplayDefaultsOnlyForNone ==
    (dv.stage = "out" /\ dv.data.some) =>
        /\ SESSION_REMAINING \notin Keys(dv.data.val)
              => dv.values.session_remaining = Unknown
        /\ WEEKLY_REMAINING \notin Keys(dv.data.val)
              => dv.values.weekly_remaining = Unknown
        /\ dv.values.session_remaining # Dashes
        /\ dv.values.weekly_remaining # Dashes

\* C11 as amended: for a mapping that is not empty each of the two fields is the
\* value of its key, or "??" when the key is missing; None and the mapping with
\* no keys both give the record of the defaults with "--".
DisplayDefaultsForNoneAndEmpty ==
    dv.stage = "out" =>
        IF dv.data.some /\ dv.data.val # {}
        THEN /\ \A p \in dv.data.val :
                   /\ p[1] = SESSION_REMAINING => dv.values.session_remaining = p[2]
                   /\ p[1] = WEEKLY_REMAINING => dv.values.weekly_remaining = p[2]
             /\ SESSION_REMAINING \notin Keys(dv.data.val)
                   => dv.values.session_remaining = Unknown
             /\ WEEKLY_REMAINING \notin Keys(dv.data.val)
                   => dv.values.weekly_remaining = Unknown
        ELSE /\ dv.values.session_remaining = Dashes
             /\ dv.values.weekly_remaining = Dashes
             /\ dv.values.exhausts_before_reset = FALSE
             /\ \A f \in {"time_remaining_str", "confidence", "session_resets",
                          "weekly_resets", "account_email", "plan_type", "extra_pct"} :
                   dv.values[f] = NoText

\* a mapping with a plan type and no SESSION_REMAINING has been projected
DisplayWitness ==
    /\ dv.stage = "out" /\ dv.data.some
    /\ Keys(dv.data.val) = {WEEKLY_REMAINING, <<"PLAN_TYPE">>}
    /\ dv.values.session_remaining = Unknown
    /\ dv.values.weekly_remaining = <<"8", "8">>
    /\ dv.values.plan_type = Text(<<"pro">>)

\* what the macOS listener does with a notification's dict: `if data:` it shows
\* the data, `elif not is_fetching:` it shows "Waiting for data..."
ShowsWaiting(n) == ~(n.data.some /\ n.data.val # {}) /\ ~n.is_fetching

\* C12 as stated: a notification that follows one with data carries data, with
\* both mandatory keys and values other than "??", and does not make the
\* listener show "Waiting for data...".
DataNeverBlanked ==
    [][(note.data.some /\ note' # note) =>
          /\ note'.data.some
          /\ BothPresent(note'.data.val)
          /\ ~ShowsWaiting(note')]_vars

\* worker t takes one of the steps of _do_fetch before its start notification
StartStep(t) ==
    /\ th[t].pc \in {"inc_read", "inc_write", "set_fetching", "read_num"}
    /\ th'[t] # th[t]

\* C14 as stated: the steps of an attempt before its start notification leave
\* last_good_data, is_stale, last_error and last_successful_fetch as they are,
\* and a start notification carries is_fetching = TRUE.
StartChangesCountAndFetching ==
    [][/\ (\E t \in Threads : StartStep(t)) =>
             UNCHANGED <<last_good_data, is_stale, last_error, last_successful_fetch>>
       /\ (note' # note /\ note'.status.label = "Fetching") => note'.is_fetching]_vars

\* C18: whenever no attempt is between the step that sets is_fetching and the
\* end of its subprocess.run, and so whenever every started attempt has
\* completed, is_fetching is false.
NotFetchingWhenNoneInFlight == (\A t \in Threads : ~InFlight(t)) => ~is_fetching

\* all the attempts have completed, having overlapped
NotFetchingWitness ==
    /\ calls = MaxCalls /\ runs = MaxCalls
    /\ \A t \in Threads : At(t, "done")
    /\ last.worker = 0
    /\ ~is_fetching

\* C19 as stated: a notification with an OK status carries is_stale = FALSE and
\* no error; one with an Error, Timeout or Invalid data status carries
\* is_stale = TRUE and an error.
StatusAgreesWithFlags ==
    /\ note.status.label = "OK" => (~note.is_stale /\ note.error = NoError)
    /\ note.status.label \in {"Error", "Timeout", "Invalid data"}
          => (note.is_stale /\ note.error # NoError)

\* C20 as stated: a notification carries data exactly when it carries a time of
\* the last successful fetch.
DataIffFetchTime ==
    note.status # NoStatus => (note.data.some <=> note.last_successful_fetch # Never)

\* C13: each notification is delivered by one call: of the scheduler with the
\* listener and the dict when a scheduler is set at that time, of the listener
\* itself when none is set; the fetcher calls the listener directly only while
\* no scheduler is set; with no listener registered nothing is called, and an
\* attempt that overlapped no other still ends with the fields its result
\* determines.
DeliveredByOneCall ==
    /\ [](\A t \in Threads :
             /\ Len(via[t]) = Len(sent[t])
             /\ ~on_update => via[t] = <<>>
             /\ ~schedule_on_main_thread => \A i \in 1..Len(via[t]) : via[t][i] = "direct")
    /\ []((~on_update /\ Idle /\ last.worker # 0) =>
             /\ is_stale <=> ~Validated(last.result)
             /\ Validated(last.result) =>
                   /\ last_good_data = Some(Parse(last.result.stdout))
                   /\ last_error = NoError)
    /\ [][\A t \in Threads :
             via'[t] # via[t] =>
                 /\ on_update
                 /\ Len(sent'[t]) = Len(sent[t]) + 1
                 /\ via'[t] = Append(via[t], IF schedule_on_main_thread THEN "scheduler"
                                            ELSE "direct")]_vars

\* the scheduler was set between the two notifications of the first attempt
DeliveredWitness ==
    /\ on_update /\ schedule_on_main_thread
    /\ sent[1] = <<"Fetching", "OK">>
    /\ via[1] = <<"direct", "scheduler">>

\* subprocess.run has ended for worker t with a non-zero exit code
ExitedNonZero(r) == r.kind = "exit" /\ r.returncode # 0

\* worker t goes from the step at label from to the one at label to
Moves(t, from, to) == At(t, from) /\ th'[t].pc = to

\* worker t delivers its completion notification
Completes(t) == At(t, "n_fetching") /\ th'[t].pc = "done"

ExitedInvalid(r) == r.kind = "exit" /\ r.returncode = 0 /\ ~BothPresent(Parse(r.stdout))

\* C16: an attempt whose output with exit code 0 does not validate sets
\* last_error to "Got ?? values (parsed k keys)", k the number of different keys
\* of the parsed dict (0 for the empty output, 2 for both mandatory keys with one
\* "??", 1 for one key on two lines), and sets is_stale to true.
InvalidErrorCountsKeys ==
    [][\A t \in Threads :
          (th'[t] # th[t] /\ ExitedInvalid(result[t])) =>
              /\ Moves(t, "set_error", "set_stale") =>
                    /\ last_error'.kind = "Got ?? values"
                    /\ last_error'.text = <<>>
                    /\ last_error'.code = Cardinality(Keys(Parse(result[t].stdout)))
                    /\ result[t].stdout = OutEmpty => last_error'.code = 0
                    /\ result[t].stdout = OutUnknown => last_error'.code = 2
                    /\ result[t].stdout = OutDuplicate => last_error'.code = 1
              /\ Moves(t, "set_stale", "n_error_arg") => is_stale']_vars

\* an attempt whose output has one key on two lines has completed
InvalidErrorWitness ==
    /\ Idle /\ last.worker # 0 /\ last.result.stdout = OutDuplicate
    /\ last_error = [kind |-> "Got ?? values", code |-> 1, text |-> <<>>]
    /\ is_stale

\* The reference parse.  A line runs between two breaks: the start of the text,
\* a newline, the end of the text.
Breaks(s) == {0, Len(s) + 1} \cup {i \in 1..Len(s) : s[i] = "\n"}
LineFrom(s, a) == SubSeq(s, a + 1, (CHOOSE b \in Breaks(s) :
                                       b > a /\ \A c \in Breaks(s) : c > a => b <= c) - 1)

\* x without the whitespace around it
Trim(x) ==
    LET inked == {i \in 1..Len(x) : x[i] \notin {" ", "\n"}}
    IN IF inked = {} THEN <<>>
       ELSE SubSeq(x, CHOOSE i \in inked : \A j \in inked : i <= j,
                      CHOOSE i \in inked : \A j \in inked : i >= j)

\* the place of the first '=' of a line that has one
FirstEquals(l) == CHOOSE i \in 1..Len(l) : l[i] = "=" /\ \A j \in 1..(i - 1) : l[j] # "="

RefKey(l) == Trim(SubSeq(l, 1, FirstEquals(l) - 1))
RefValue(l) == Trim(SubSeq(l, FirstEquals(l) + 1, Len(l)))

\* the lines that contribute: not empty, not starting with '#', with a '='
RefEntryStarts(s) ==
    {a \in Breaks(s) \ {Len(s) + 1} :
        LET l == LineFrom(s, a)
        IN l # <<>> /\ l[1] # "#" /\ \E i \in 1..Len(l) : l[i] = "="}

\* each key with the value of the last line that has it
RefParse(s) ==
    {<<RefKey(LineFrom(s, a)), RefValue(LineFrom(s, a))>> :
        a \in {a \in RefEntryStarts(s) :
                 \A b \in RefEntryStarts(s) :
                     b > a => RefKey(LineFrom(s, b)) # RefKey(LineFrom(s, a))}}

\* C17 as stated: the parser's result is the reference parse of the text.
ParseIsReference == rt.stage = "parsed" => rt.parsed = RefParse(rt.text)

\* C17 as amended: the parser's result is the reference parse of the text
\* without the whitespace before and after it.
ParseIsReferenceOfTrimmed == rt.stage = "parsed" => rt.parsed = RefParse(Trim(rt.text))

\* a key on two lines has the value of the second
ParseIsReferenceWitness ==
    /\ rt.stage = "parsed"
    /\ rt.text = <<"a", "=", "a", "\n", "a", "=">>
    /\ rt.parsed = {<<(<<"a">>), <<>> >>}

\* C21 as stated: with a listener that may raise, after an attempt that
\* overlapped no other has ended, by returning or by an exception leaving
\* _do_fetch, is_fetching is false and is_stale and last_error are what the
\* script's result determines: not stale and no error after validated output,
\* stale with the error of the failure otherwise.
ListenerRaiseLeavesOutcome ==
    (Idle /\ last.worker # 0) =>
        /\ ~is_fetching
        /\ Validated(last.result) => (~is_stale /\ last_error = NoError)
        /\ (last.result # NoResult /\ ~Validated(last.result)) =>
              (is_stale /\ last_error = AfterRunOf[last.result].err)

====
